---- MODULE Spec2Model ----
(***************************************************************************)
(* Seedable: a Torznab proxy that re-queries NZBHydra2 and keeps only the  *)
(* releases found on several trackers (src/seedable.py).                   *)
(*                                                                         *)
(* The model has two layers.  The pure functions of the source             *)
(* (normalize_title, get_size_bucket, group_results, filter_cross_seedable,*)
(* map_category_to_torznab, the category filter, the URL deduplication and *)
(* the pagination slice) are operators on sequences of result records.     *)
(* The request handler torznab_api is a process per worker thread of the   *)
(* Flask server, cut at the points where it touches the shared dict        *)
(* results_cache or the clock, so that two handlers interleave exactly     *)
(* where the threads of the program can.                                   *)
(*                                                                         *)
(* Text is modelled as a sequence of one-character strings wherever the    *)
(* source looks inside it (titles, the imdbid parameter); other text       *)
(* (indexer names, links, categories) is an opaque string.                 *)
(***************************************************************************)
EXTENDS Integers, Sequences, FiniteSets, TLC

(***************************************************************************)
(* Generic helpers on sequences.                                           *)
(***************************************************************************)
Range(s) == { s[i] : i \in 1..Len(s) }

Min(a, b) == IF a < b THEN a ELSE b

Max(a, b) == IF a > b THEN a ELSE b

\* Python's s[start:stop] for a list s and integers start, stop (step 1):
\* negative indices count from the end, both ends are clamped to 0..len(s),
\* and an empty range gives the empty list.
PySlice(s, start, stop) ==
    LET n  == Len(s)
        lo == IF start < 0 THEN Max(start + n, 0) ELSE Min(start, n)
        hi == IF stop < 0 THEN Max(stop + n, 0) ELSE Min(stop, n)
    IN  IF hi <= lo THEN <<>> ELSE SubSeq(s, lo + 1, hi)

(***************************************************************************)
(* normalize_title (src/seedable.py:81-98).                                *)
(***************************************************************************)
UpperCase == << "A", "B", "C", "D", "E", "F", "G", "H", "I", "J", "K", "L", "M",
                "N", "O", "P", "Q", "R", "S", "T", "U", "V", "W", "X", "Y", "Z" >>

LowerCase == << "a", "b", "c", "d", "e", "f", "g", "h", "i", "j", "k", "l", "m",
                "n", "o", "p", "q", "r", "s", "t", "u", "v", "w", "x", "y", "z" >>

Digits == { "0", "1", "2", "3", "4", "5", "6", "7", "8", "9" }

\* str.lower() on one character
LowerChar(c) ==
    IF \E i \in 1..Len(UpperCase) : UpperCase[i] = c
    THEN LowerCase[CHOOSE i \in 1..Len(UpperCase) : UpperCase[i] = c]
    ELSE c

\* the character class [._-]
Separators == { ".", "_", "-" }

IsSeparator(c) == c \in Separators

\* the character class \s (the whitespace the model's alphabet has)
Spaces == { " " }

IsSpace(c) == c \in Spaces

\* the character class \w
WordChars == Range(LowerCase) \cup Range(UpperCase) \cup Digits \cup { "_" }

IsWordChar(c) == c \in WordChars

\* the first index >= i of s whose character is not of the class, or
\* Len(s) + 1: the end of a greedy run class+ / class* that starts at i
RunEnd(s, i, class) ==
    LET stops == { j \in i..Len(s) : s[j] \notin class }
    IN  IF stops = {} THEN Max(Len(s) + 1, i)
        ELSE CHOOSE j \in stops : \A k \in stops : j <= k

\* re.sub(r'[._-]+', ' ', s): every maximal run of separators becomes one space
RECURSIVE SubSeparators(_, _)
SubSeparators(s, i) ==
    IF i > Len(s) THEN <<>>
    ELSE IF IsSeparator(s[i])
         THEN << " " >> \o SubSeparators(s, RunEnd(s, i, Separators))
         ELSE << s[i] >> \o SubSeparators(s, i + 1)

\* A match of r'\bwww\s+\w+\s+(org|com|net)\b' that starts at index i of s:
\* the index just past the match, or 0 when there is none.  The classes \s and
\* \w are disjoint, so the greedy runs are the only way to match.
\* d is the index just past the second \s+
MatchTld(s, d) ==
    IF /\ d + 2 <= Len(s)
       /\ SubSeq(s, d, d + 2) \in { << "o", "r", "g" >>, << "c", "o", "m" >>,
                                    << "n", "e", "t" >> }
       /\ (d + 3 > Len(s) \/ ~IsWordChar(s[d + 3]))
    THEN d + 3
    ELSE 0

\* c is the index just past \w+
MatchSpaces2(s, c) ==
    IF RunEnd(s, c, Spaces) > c THEN MatchTld(s, RunEnd(s, c, Spaces)) ELSE 0

\* b is the index just past the first \s+
MatchWord(s, b) ==
    IF RunEnd(s, b, WordChars) > b THEN MatchSpaces2(s, RunEnd(s, b, WordChars)) ELSE 0

\* a is the index just past "www"
MatchSpaces1(s, a) ==
    IF RunEnd(s, a, Spaces) > a THEN MatchWord(s, RunEnd(s, a, Spaces)) ELSE 0

MatchWww(s, i) ==
    IF /\ i + 2 <= Len(s)
       /\ SubSeq(s, i, i + 2) = << "w", "w", "w" >>
       /\ (i = 1 \/ ~IsWordChar(s[i - 1]))
    THEN MatchSpaces1(s, i + 3)
    ELSE 0

\* re.sub(r'\bwww\s+\w+\s+(org|com|net)\b', '', s): the matches are found left
\* to right and do not overlap
RECURSIVE RemoveWww(_, _)
RemoveWww(s, i) ==
    IF i > Len(s) THEN <<>>
    ELSE LET end == MatchWww(s, i)
         IN  IF end # 0 THEN RemoveWww(s, end)
             ELSE << s[i] >> \o RemoveWww(s, i + 1)

\* re.sub(r'\s+', ' ', s)
RECURSIVE CollapseSpaces(_, _)
CollapseSpaces(s, i) ==
    IF i > Len(s) THEN <<>>
    ELSE IF IsSpace(s[i])
         THEN << " " >> \o CollapseSpaces(s, RunEnd(s, i, Spaces))
         ELSE << s[i] >> \o CollapseSpaces(s, i + 1)

\* str.strip()
Strip(s) ==
    LET keep == { i \in 1..Len(s) : ~IsSpace(s[i]) }
    IN  IF keep = {} THEN <<>>
        ELSE SubSeq(s, CHOOSE i \in keep : \A j \in keep : i <= j,
                       CHOOSE i \in keep : \A j \in keep : i >= j)

\* str.lower()
Lower(s) == [ i \in 1..Len(s) |-> LowerChar(s[i]) ]

normalize_title(title) ==
    Strip(CollapseSpaces(RemoveWww(SubSeparators(Lower(title), 1), 1), 1))

(***************************************************************************)
(* get_size_bucket (src/seedable.py:130-147).                              *)
(*                                                                         *)
(* size_mb = size_bytes / 2^20 and size_mb / bucket_size are float         *)
(* divisions; for the sizes a torrent can have (below 2^53 bytes) the      *)
(* first is exact and the second is never rounded onto a half it did not   *)
(* already have, so round() sees the exact rational and is computed here   *)
(* on integers.  Python 3's round() rounds a half to the even integer.     *)
(***************************************************************************)
MB == 1024 * 1024

\* RoundHalfEven as it would be if a half were always rounded up
RoundHalfUp(n, d) ==
    IF 2 * (n % d) < d THEN n \div d ELSE (n \div d) + 1

\* round(n / d) for integers n and d > 0
RoundHalfEven(n, d) ==
    LET q == n \div d
        r == n % d
    IN  IF 2 * r < d THEN q
        ELSE IF 2 * r > d THEN q + 1
        ELSE IF q % 2 = 0 THEN q ELSE q + 1

get_size_bucket(size_bytes) ==
    LET bucket_size == IF size_bytes < 100 * MB THEN 10
                       ELSE IF size_bytes < 1000 * MB THEN 50
                       ELSE 100
    IN  RoundHalfEven(size_bytes, MB * bucket_size) * bucket_size

(***************************************************************************)
(* group_results (src/seedable.py:150-168).                                *)
(*                                                                         *)
(* The defaultdict keeps its keys in insertion order, which is the order   *)
(* filter_cross_seedable iterates in: the groups are a sequence of         *)
(* [key, members] in order of each key's first result.                     *)
(***************************************************************************)
\* GroupKey as it would be if the title were taken as the tracker spells it
GroupKeyRawTitle(result) == << Lower(result.title), get_size_bucket(result.size) >>

GroupKey(result) == << normalize_title(result.title), get_size_bucket(result.size) >>

\* groups[key].append(result)
GroupAppend(groups, key, result) ==
    IF \E i \in 1..Len(groups) : groups[i].key = key
    THEN [ i \in 1..Len(groups) |->
             IF groups[i].key = key
             THEN [ groups[i] EXCEPT !.members = Append(@, result) ]
             ELSE groups[i] ]
    ELSE Append(groups, [ key |-> key, members |-> << result >> ])

\* 'for result in results' over results[lo..hi], entered with groups.  The
\* rounds run in order.  The range is cut in halves, and the first half is
\* computed (the test on Len is always true) before the second starts, only
\* to keep the nesting of the evaluation shallow on a long list.
RECURSIVE GroupLoop(_, _, _, _)
GroupLoop(groups, results, lo, hi) ==
    IF lo > hi THEN groups
    ELSE IF lo = hi THEN GroupAppend(groups, GroupKey(results[lo]), results[lo])
    ELSE LET first == GroupLoop(groups, results, lo, (lo + hi) \div 2)
         IN  IF Len(first) >= 0
             THEN GroupLoop(first, results, ((lo + hi) \div 2) + 1, hi)
             ELSE first

group_results(results) == GroupLoop(<<>>, results, 1, Len(results))

(***************************************************************************)
(* The state of the program.                                               *)
(*                                                                         *)
(* MIN_DUPLICATES and PRIVATE_TRACKERS are read from the environment when  *)
(* the module is loaded and never change.  results_cache is the shared     *)
(* dict: a sequence of [key, results, timestamp] in insertion order, one   *)
(* entry per key.  now is time.time() in seconds.  handler[h] holds the    *)
(* position and the local variables of the request that worker thread h    *)
(* is handling.  negative_keys is a history variable: the cache keys whose *)
(* current entry was computed from a failed call to NZBHydra2.             *)
(***************************************************************************)
VARIABLES MIN_DUPLICATES, PRIVATE_TRACKERS, results_cache, now, handler,
          negative_keys

vars == << MIN_DUPLICATES, PRIVATE_TRACKERS, results_cache, now, handler,
           negative_keys >>

CACHE_TTL == 60

\* int(params.get('limit', 100))
DEFAULT_LIMIT == 100

\* <limits max='100' default='100'> of the capabilities document
CAPS_LIMIT_MAX == 100

(***************************************************************************)
(* filter_cross_seedable (src/seedable.py:171-216).                        *)
(***************************************************************************)
\* result['_tracker_counts'] = {'private': ..., 'public': ...}
WithTrackerCounts(result, private_count, public_count) ==
    [ f \in DOMAIN result \cup { "tracker_counts" } |->
        IF f = "tracker_counts"
        THEN [ private |-> private_count, public |-> public_count ]
        ELSE result[f] ]

\* PrivateCount as it would be if only the first member of the group were asked
PrivateCountFirstOnly(members) ==
    IF members # <<>> /\ members[1].indexer \in PRIVATE_TRACKERS THEN 1 ELSE 0

PrivateCount(members) ==
    Cardinality({ i \in 1..Len(members) : members[i].indexer \in PRIVATE_TRACKERS })

\* PublicCount as it would be if the count went up for every member
PublicCountAll(members) == Len(members)

PublicCount(members) ==
    Cardinality({ i \in 1..Len(members) : members[i].indexer \notin PRIVATE_TRACKERS })

\* the second loop over a group that passed
Annotate(members, private_count, public_count) ==
    [ i \in 1..Len(members) |->
        WithTrackerCounts(members[i], private_count, public_count) ]

\* FilterCounted as it would be with 'len(group_results) <= MIN_DUPLICATES'
FilterCountedOffByOne(members, private_count, public_count) ==
    IF Len(members) <= MIN_DUPLICATES THEN <<>>
    ELSE IF PRIVATE_TRACKERS # {} /\ private_count = 0 THEN <<>>
    ELSE Annotate(members, private_count, public_count)

\* the body of the loop for one group: what it appends to cross_seedable
FilterCounted(members, private_count, public_count) ==
    IF Len(members) < MIN_DUPLICATES THEN <<>>
    ELSE IF PRIVATE_TRACKERS # {} /\ private_count = 0 THEN <<>>
    ELSE Annotate(members, private_count, public_count)

FilterGroup(members) ==
    FilterCounted(members, PrivateCount(members), PublicCount(members))

\* 'for group_key, group_results in groups.items()' over groups[lo..hi],
\* entered with cross_seedable
RECURSIVE FilterLoop(_, _, _, _)
FilterLoop(cross_seedable, groups, lo, hi) ==
    IF lo > hi THEN cross_seedable
    ELSE IF lo = hi THEN cross_seedable \o FilterGroup(groups[lo].members)
    ELSE LET first == FilterLoop(cross_seedable, groups, lo, (lo + hi) \div 2)
         IN  IF Len(first) >= 0
             THEN FilterLoop(first, groups, ((lo + hi) \div 2) + 1, hi)
             ELSE first

filter_cross_seedable(groups) == FilterLoop(<<>>, groups, 1, Len(groups))

(***************************************************************************)
(* map_category_to_torznab (src/seedable.py:359-397) and the category      *)
(* filter of torznab_api (src/seedable.py:580-590).  A Torznab category    *)
(* code is a number of four digits; code[:1] + '000' is then the code with *)
(* its last three digits cleared.                                          *)
(***************************************************************************)
\* category.lower().strip(), on the spellings NZBHydra2 uses
LowerStrip(category) ==
    CASE category = "Movies"    -> "movies"
      [] category = "Movies HD" -> "movies hd"
      [] category = "Movies SD" -> "movies sd"
      [] category = "TV"        -> "tv"
      [] category = "TV HD"     -> "tv hd"
      [] category = " Audio "   -> "audio"
      [] OTHER                  -> category

category_mapping ==
    [ name \in { "movies", "movies foreign", "movies other", "movies sd",
                 "movies hd", "movies uhd", "movies 4k", "movies bluray",
                 "movies 3d", "tv", "tv foreign", "tv sd", "tv hd", "tv uhd",
                 "tv 4k", "tv other", "tv sport", "tv anime", "anime",
                 "tv documentary", "audio", "audio mp3", "audio video",
                 "audio audiobook", "audio lossless", "console", "pc", "xxx",
                 "books", "other" } |->
        CASE name = "movies"          -> 2000
          [] name = "movies foreign"  -> 2010
          [] name = "movies other"    -> 2020
          [] name = "movies sd"       -> 2030
          [] name = "movies hd"       -> 2040
          [] name = "movies uhd"      -> 2045
          [] name = "movies 4k"       -> 2045
          [] name = "movies bluray"   -> 2050
          [] name = "movies 3d"       -> 2060
          [] name = "tv"              -> 5000
          [] name = "tv foreign"      -> 5020
          [] name = "tv sd"           -> 5030
          [] name = "tv hd"           -> 5040
          [] name = "tv uhd"          -> 5045
          [] name = "tv 4k"           -> 5045
          [] name = "tv other"        -> 5050
          [] name = "tv sport"        -> 5060
          [] name = "tv anime"        -> 5070
          [] name = "anime"           -> 5070
          [] name = "tv documentary"  -> 5080
          [] name = "audio"           -> 3000
          [] name = "audio mp3"       -> 3010
          [] name = "audio video"     -> 3020
          [] name = "audio audiobook" -> 3030
          [] name = "audio lossless"  -> 3040
          [] name = "console"         -> 1000
          [] name = "pc"              -> 4000
          [] name = "xxx"             -> 6000
          [] name = "books"           -> 7000
          [] name = "other"           -> 8000 ]

map_category_to_torznab(category) ==
    LET cat_lower == LowerStrip(category)
    IN  IF cat_lower \in DOMAIN category_mapping
        THEN category_mapping[cat_lower]
        ELSE 2000

\* CategoryMatches as it would be without the test of the main category
CategoryMatchesExact(result, requested_cats) ==
    map_category_to_torznab(result.category) \in Range(requested_cats)

\* result_cat in requested_cats or result_cat[:1] + '000' in requested_cats
CategoryMatches(result, requested_cats) ==
    LET result_cat == map_category_to_torznab(result.category)
    IN  \/ result_cat \in Range(requested_cats)
        \/ (result_cat \div 1000) * 1000 \in Range(requested_cats)

\* params['cat'] is the list of requested codes ('' is the empty list)
CategoryFilter(filtered_results, requested_cats) ==
    IF requested_cats = <<>> THEN filtered_results
    ELSE SelectSeq(filtered_results, LAMBDA r : CategoryMatches(r, requested_cats))

(***************************************************************************)
(* The IMDb / TVDb filter of torznab_api (src/seedable.py:557-571).        *)
(***************************************************************************)
\* the 'tt' prefix is added when missing
NormalizeImdb(imdbid) ==
    IF Len(imdbid) >= 2 /\ SubSeq(imdbid, 1, 2) = << "t", "t" >>
    THEN imdbid
    ELSE << "t", "t" >> \o imdbid

DigitChars == << "0", "1", "2", "3", "4", "5", "6", "7", "8", "9" >>

\* str(x) for x a natural number, or None (written -1)
RECURSIVE PyStr(_)
PyStr(x) ==
    IF x < 0 THEN << "N", "o", "n", "e" >>
    ELSE IF x < 10 THEN << DigitChars[x + 1] >>
    ELSE PyStr(x \div 10) \o << DigitChars[(x % 10) + 1] >>

IdFilter(results, params) ==
    IF params.imdbid # <<>>
    THEN SelectSeq(results, LAMBDA r : r.imdbId = NormalizeImdb(params.imdbid))
    ELSE IF params.tvdbid # <<>>
    THEN SelectSeq(results, LAMBDA r : PyStr(r.tvdbId) = params.tvdbid)
    ELSE results

(***************************************************************************)
(* The deduplication by download URL of torznab_api                       *)
(* (src/seedable.py:592-603).                                              *)
(***************************************************************************)
\* seen_urls holds the link of every result appended to unique_results so far
SeenUrls(unique_results) == { unique_results[j].link : j \in 1..Len(unique_results) }

\* DedupStep as it would be without the test on seen_urls
DedupStepUnseen(unique_results, result) ==
    IF result.link # "" THEN Append(unique_results, result) ELSE unique_results

\* one round of the loop: 'if url and url not in seen_urls'
DedupStep(unique_results, result) ==
    IF result.link # "" /\ result.link \notin SeenUrls(unique_results)
    THEN Append(unique_results, result)
    ELSE unique_results

\* 'for result in filtered_results' over filtered_results[lo..hi], entered
\* with unique_results
RECURSIVE DedupLoop(_, _, _, _)
DedupLoop(unique_results, filtered_results, lo, hi) ==
    IF lo > hi THEN unique_results
    ELSE IF lo = hi THEN DedupStep(unique_results, filtered_results[lo])
    ELSE LET first == DedupLoop(unique_results, filtered_results, lo, (lo + hi) \div 2)
         IN  IF Len(first) >= 0
             THEN DedupLoop(first, filtered_results, ((lo + hi) \div 2) + 1, hi)
             ELSE first

UniqueResults(filtered_results) ==
    DedupLoop(<<>>, filtered_results, 1, Len(filtered_results))

\* filtered_results after the 'if len(unique_results) < len(filtered_results)'
Deduplicate(filtered_results, unique_results) ==
    IF Len(unique_results) < Len(filtered_results)
    THEN unique_results
    ELSE filtered_results

(***************************************************************************)
(* get_cache_key (src/seedable.py:54-68): the md5 of the sorted items of   *)
(* the seven search parameters.  The digest is taken to be injective, so   *)
(* the key is the sorted list of items itself.                             *)
(***************************************************************************)
\* get_cache_key as it would be if the offset were one of the hashed items
get_cache_key_paged(params) ==
    << << "cat", params.cat >>, << "ep", params.ep >>,
       << "imdbid", params.imdbid >>, << "offset", params.offset >>,
       << "q", params.q >>, << "season", params.season >>,
       << "t", params.t >>, << "tvdbid", params.tvdbid >> >>

get_cache_key(params) ==
    << << "cat", params.cat >>, << "ep", params.ep >>,
       << "imdbid", params.imdbid >>, << "q", params.q >>,
       << "season", params.season >>, << "t", params.t >>,
       << "tvdbid", params.tvdbid >> >>

(***************************************************************************)
(* The lines of torznab_api between the answer of NZBHydra2 and the store  *)
(* into the cache (src/seedable.py:553-603): every intermediate list, as   *)
(* the local variables of the handler hold them.                           *)
(***************************************************************************)
EvaluateUnique(all_results, groups, cross_seedable, category_filtered, unique_results) ==
    [ all_results       |-> all_results,
      groups            |-> groups,
      cross_seedable    |-> cross_seedable,
      category_filtered |-> category_filtered,
      unique_results    |-> unique_results,
      filtered_results  |-> Deduplicate(category_filtered, unique_results) ]

EvaluateCategory(all_results, groups, cross_seedable, category_filtered) ==
    EvaluateUnique(all_results, groups, cross_seedable, category_filtered,
                   UniqueResults(category_filtered))

EvaluateCross(all_results, groups, cross_seedable, params) ==
    EvaluateCategory(all_results, groups, cross_seedable,
                     CategoryFilter(cross_seedable, params.cat))

EvaluateGroups(all_results, groups, params) ==
    EvaluateCross(all_results, groups, filter_cross_seedable(groups), params)

EvaluateFiltered(all_results, params) ==
    EvaluateGroups(all_results, group_results(all_results), params)

Evaluate(searchResults, params) ==
    EvaluateFiltered(IdFilter(searchResults, params), params)

(***************************************************************************)
(* The dict results_cache (src/seedable.py:48-51).                         *)
(***************************************************************************)
CacheKeys(cache) == { cache[i].key : i \in 1..Len(cache) }

\* results_cache[key]
CacheGet(cache, key) == cache[CHOOSE i \in 1..Len(cache) : cache[i].key = key]

\* del results_cache[key], for a key that is present
CacheDel(cache, key) == SelectSeq(cache, LAMBDA e : e.key # key)

\* results_cache[key] = {'results': results, 'timestamp': timestamp}: a present
\* key keeps its place, a new key goes last
CacheSet(cache, key, results, timestamp) ==
    LET entry == [ key |-> key, results |-> results, timestamp |-> timestamp ]
    IN  IF key \in CacheKeys(cache)
        THEN [ i \in 1..Len(cache) |-> IF cache[i].key = key THEN entry ELSE cache[i] ]
        ELSE Append(cache, entry)

(***************************************************************************)
(* The worker threads.  app.run() serves each request in its own thread    *)
(* (src/seedable.py:722), so several torznab_api calls run at once on the  *)
(* one results_cache, with no lock anywhere in the source.                 *)
(***************************************************************************)
Handlers == { "h1", "h2" }

NoParams ==
    [ q |-> "", cat |-> <<>>, imdbid |-> <<>>, tvdbid |-> <<>>, season |-> "",
      ep |-> "", t |-> "", offset |-> 0, limit |-> 0 ]

NoKey == get_cache_key(NoParams)

\* a thread with no request
IdleHandler ==
    [ pc                |-> "idle",
      params            |-> NoParams,
      current_time      |-> 0,
      scan_used         |-> 0,
      scan_seen         |-> {},
      scan_skipped      |-> {},
      scan_dirty        |-> FALSE,
      expired_keys      |-> <<>>,
      cache_key         |-> NoKey,
      cached            |-> FALSE,
      hydra_failed      |-> FALSE,
      searchResults     |-> <<>>,
      all_results       |-> <<>>,
      groups            |-> <<>>,
      cross_seedable    |-> <<>>,
      category_filtered |-> <<>>,
      unique_results    |-> <<>>,
      filtered_results  |-> <<>>,
      paginated_results |-> <<>>,
      error             |-> "" ]

\* an exception nobody catches ends the request (Flask answers 500)
Raise(h, exception) ==
    handler' = [ handler EXCEPT ![h] =
                   [ IdleHandler EXCEPT !.pc = "failed", !.error = exception ] ]

\* clean_expired_cache returns, its locals are gone, and torznab_api computes
\* the cache key (src/seedable.py:532)
Swept(me) ==
    [ IdleHandler EXCEPT !.pc = "lookup",
                         !.params = me.params,
                         !.cache_key = get_cache_key(me.params) ]

\* the dict gained or lost a key under the iterators of the other threads
Disturb(handlers, h) ==
    [ g \in Handlers |->
        IF g # h /\ handlers[g].pc = "sweep_scan"
        THEN [ handlers[g] EXCEPT !.scan_dirty = TRUE ]
        ELSE handlers[g] ]

\* A search request arrives (t in search, movie, tvsearch; the API key is
\* right) and clean_expired_cache starts: it reads the clock and opens the
\* iteration over results_cache.items() (src/seedable.py:506-529, 73-74).
Receive(h, params) ==
    /\ handler[h].pc = "idle"
    /\ handler' = [ handler EXCEPT ![h] =
                      [ IdleHandler EXCEPT !.pc = "sweep_scan",
                                           !.params = params,
                                           !.current_time = now,
                                           !.scan_used = Len(results_cache) ] ]
    /\ UNCHANGED << MIN_DUPLICATES, PRIVATE_TRACKERS, results_cache, now, negative_keys >>

\* What one step of the iteration can do.  A dict whose size differs from the
\* size at the start raises RuntimeError.  A dict that lost and gained keys
\* under the iterator but has its old size is iterated by its new layout:
\* the iterator may still raise RuntimeError, or give the next item, or pass
\* over an item without giving it ("may raise a RuntimeError or fail to
\* iterate over all entries", as Python documents for dict views).
ScanOutcomes(h) ==
    IF Len(results_cache) # handler[h].scan_used THEN { "RuntimeError" }
    ELSE IF handler[h].scan_dirty THEN { "RuntimeError", "next", "skip" }
    ELSE { "next" }

\* One step of the list comprehension of clean_expired_cache
\* (src/seedable.py:74-75): the next item, or the end of the scan.
SweepNext(h) ==
    /\ handler[h].pc = "sweep_scan"
    /\ \E outcome \in ScanOutcomes(h) :
         LET me     == handler[h]
             unseen == SelectSeq(results_cache,
                         LAMBDA e : e.key \notin me.scan_seen \cup me.scan_skipped)
         IN  IF outcome = "RuntimeError" THEN Raise(h, "RuntimeError")
             ELSE IF unseen = <<>>
             THEN handler' = [ handler EXCEPT ![h] =
                     IF me.expired_keys = <<>> THEN Swept(me)
                     ELSE [ @ EXCEPT !.pc = "sweep_del" ] ]
             ELSE IF outcome = "skip"
             THEN handler' = [ handler EXCEPT ![h] =
                     [ @ EXCEPT !.scan_skipped = @ \cup { unseen[1].key } ] ]
             ELSE IF Cardinality(me.scan_seen) >= me.scan_used
             THEN Raise(h, "RuntimeError")
             ELSE handler' = [ handler EXCEPT ![h] =
                     [ @ EXCEPT !.scan_seen = @ \cup { unseen[1].key },
                                !.expired_keys =
                                    IF me.current_time - unseen[1].timestamp > CACHE_TTL
                                    THEN Append(@, unseen[1].key)
                                    ELSE @ ] ]
    /\ UNCHANGED << MIN_DUPLICATES, PRIVATE_TRACKERS, results_cache, now, negative_keys >>

\* One round of 'for key in expired_keys: del results_cache[key]'
\* (src/seedable.py:76-78); after the last one, get_cache_key (line 532).
SweepDel(h) ==
    /\ handler[h].pc = "sweep_del"
    /\ LET me   == handler[h]
           key  == Head(me.expired_keys)
           rest == Tail(me.expired_keys)
       IN  IF key \notin CacheKeys(results_cache)
           THEN /\ Raise(h, "KeyError")
                /\ UNCHANGED << results_cache, negative_keys >>
           ELSE /\ results_cache' = CacheDel(results_cache, key)
                /\ negative_keys' = negative_keys \ { key }
                /\ handler' = Disturb(
                     [ handler EXCEPT ![h] =
                         IF rest = <<>> THEN Swept(me)
                         ELSE [ @ EXCEPT !.expired_keys = rest ] ], h)
    /\ UNCHANGED << MIN_DUPLICATES, PRIVATE_TRACKERS, now >>

\* 'if cache_key in results_cache' (src/seedable.py:535, 545-546)
CacheContains(h) ==
    /\ handler[h].pc = "lookup"
    /\ handler' = [ handler EXCEPT ![h] =
                      [ @ EXCEPT !.pc = IF handler[h].cache_key \in CacheKeys(results_cache)
                                        THEN "read" ELSE "query" ] ]
    /\ UNCHANGED << MIN_DUPLICATES, PRIVATE_TRACKERS, results_cache, now, negative_keys >>

\* 'cache_entry = results_cache[cache_key]', the age of the entry and the
\* choice between the cached list and a miss (src/seedable.py:536-544)
CacheRead(h) ==
    /\ handler[h].pc = "read"
    /\ LET me == handler[h]
       IN  IF me.cache_key \notin CacheKeys(results_cache)
           THEN Raise(h, "KeyError")
           ELSE LET cache_entry == CacheGet(results_cache, me.cache_key)
                    cache_age   == now - cache_entry.timestamp
                IN  handler' = [ handler EXCEPT ![h] =
                      IF cache_age < CACHE_TTL
                      THEN [ @ EXCEPT !.pc = "paginate",
                                      !.cached = TRUE,
                                      !.filtered_results = cache_entry.results ]
                      ELSE [ @ EXCEPT !.pc = "del_stale" ] ]
    /\ UNCHANGED << MIN_DUPLICATES, PRIVATE_TRACKERS, results_cache, now, negative_keys >>

\* 'del results_cache[cache_key]' of an expired entry (src/seedable.py:543)
DelStale(h) ==
    /\ handler[h].pc = "del_stale"
    /\ LET key == handler[h].cache_key
       IN  IF key \notin CacheKeys(results_cache)
           THEN /\ Raise(h, "KeyError")
                /\ UNCHANGED << results_cache, negative_keys >>
           ELSE /\ results_cache' = CacheDel(results_cache, key)
                /\ negative_keys' = negative_keys \ { key }
                /\ handler' = Disturb(
                     [ handler EXCEPT ![h] = [ @ EXCEPT !.pc = "query" ] ], h)
    /\ UNCHANGED << MIN_DUPLICATES, PRIVATE_TRACKERS, now >>

\* the locals of a handler once NZBHydra2 answered and the results are filtered
Filtered(me, ok, searchResults, ev) ==
    [ me EXCEPT !.pc = "store",
                !.hydra_failed = ~ok,
                !.searchResults = searchResults,
                !.all_results = ev.all_results,
                !.groups = ev.groups,
                !.cross_seedable = ev.cross_seedable,
                !.category_filtered = ev.category_filtered,
                !.unique_results = ev.unique_results,
                !.filtered_results = ev.filtered_results ]

Answered(me, ok, searchResults) ==
    Filtered(me, ok, searchResults, Evaluate(searchResults, me.params))

\* query_nzbhydra answers (src/seedable.py:343-356): the search results of
\* NZBHydra2, or the empty answer of the except branch when the call failed;
\* then the handler filters them (src/seedable.py:553-603).
QueryHydra(h, responses) ==
    /\ handler[h].pc = "query"
    /\ \E ok \in BOOLEAN, response \in responses :
         handler' = [ handler EXCEPT ![h] =
             Answered(@, ok, IF ok THEN response ELSE <<>>) ]
    /\ UNCHANGED << MIN_DUPLICATES, PRIVATE_TRACKERS, results_cache, now, negative_keys >>

\* 'results_cache[cache_key] = {...}' (src/seedable.py:605-610)
CacheStore(h) ==
    /\ handler[h].pc = "store"
    /\ LET me == handler[h]
       IN  /\ results_cache' = CacheSet(results_cache, me.cache_key, me.filtered_results, now)
           /\ negative_keys' = IF me.hydra_failed
                               THEN negative_keys \cup { me.cache_key }
                               ELSE negative_keys \ { me.cache_key }
           /\ handler' = LET moved == [ handler EXCEPT ![h] = [ @ EXCEPT !.pc = "paginate" ] ]
                         IN  IF me.cache_key \in CacheKeys(results_cache)
                             THEN moved
                             ELSE Disturb(moved, h)
    /\ UNCHANGED << MIN_DUPLICATES, PRIVATE_TRACKERS, now >>

\* the slice by offset and limit, and the response (src/seedable.py:612-624)
Paginate(h) ==
    /\ handler[h].pc = "paginate"
    /\ LET me     == handler[h]
           offset == me.params.offset
           limit  == me.params.limit
       IN  handler' = [ handler EXCEPT ![h] =
             [ @ EXCEPT !.pc = "done",
                        !.paginated_results =
                            PySlice(me.filtered_results, offset, offset + limit) ] ]
    /\ UNCHANGED << MIN_DUPLICATES, PRIVATE_TRACKERS, results_cache, now, negative_keys >>

\* the response (or the 500) is sent and the thread is free again
Finish(h) ==
    /\ handler[h].pc \in { "done", "failed" }
    /\ handler' = [ handler EXCEPT ![h] = IdleHandler ]
    /\ UNCHANGED << MIN_DUPLICATES, PRIVATE_TRACKERS, results_cache, now, negative_keys >>

\* the clock advances: by half the time to live, or past all of it at once
TickSteps == { 30, 61 }

MaxTime == 61

Tick ==
    /\ \E d \in TickSteps :
         /\ now + d <= MaxTime
         /\ now' = now + d
    /\ UNCHANGED << MIN_DUPLICATES, PRIVATE_TRACKERS, results_cache, handler, negative_keys >>

(***************************************************************************)
(* The requests and the answers of NZBHydra2 the model draws from.         *)
(***************************************************************************)
\* "Mv.24", "mv_24" (the same release, spelled by another tracker), "Tv.24"
TitleDotted == << "M", "v", ".", "2", "4" >>

TitleUnderscored == << "m", "v", "_", "2", "4" >>

TitleOther == << "T", "v", ".", "2", "4" >>

Result(id, title, size, indexer, link) ==
    [ searchResultId |-> id, title |-> title, size |-> size, indexer |-> indexer,
      link |-> link, category |-> "Movies", imdbId |-> << "t", "t", "1" >>,
      tvdbId |-> -1 ]

Request(q, offset, limit) ==
    [ q |-> q, cat |-> <<>>, imdbid |-> <<>>, tvdbid |-> <<>>, season |-> "",
      ep |-> "", t |-> "search", offset |-> offset, limit |-> limit ]

\* two search intents; the first is asked for its first page or for a later one
Requests ==
    { Request("a", 0, DEFAULT_LIMIT), Request("a", 1, 1), Request("b", 0, DEFAULT_LIMIT) }

\* one release on two trackers beside a release on one
Responses ==
    { << Result(1, TitleDotted, 2000 * MB, "TrackerA", "u1"),
         Result(2, TitleOther, 700 * MB, "PubB", "u3"),
         Result(3, TitleUnderscored, 2005 * MB, "PubB", "u2") >> }

DEFAULT_MIN_DUPLICATES == 2

Init ==
    /\ MIN_DUPLICATES = DEFAULT_MIN_DUPLICATES
    /\ PRIVATE_TRACKERS = {}
    /\ results_cache = <<>>
    /\ now = 0
    /\ handler = [ h \in Handlers |-> IdleHandler ]
    /\ negative_keys = {}

Next ==
    \/ Tick
    \/ \E h \in Handlers :
         \/ \E params \in Requests : Receive(h, params)
         \/ SweepNext(h)
         \/ SweepDel(h)
         \/ CacheContains(h)
         \/ CacheRead(h)
         \/ DelStale(h)
         \/ QueryHydra(h, Responses)
         \/ CacheStore(h)
         \/ Paginate(h)
         \/ Finish(h)

Spec == Init /\ [][Next]_vars

(***************************************************************************)
(* One search on a freshly started process, for every configuration and    *)
(* every answer of NZBHydra2 up to MaxResults results: the specification   *)
(* the properties of grouping, filtering, deduplication and pagination    *)
(* are stated on.                                                          *)
(***************************************************************************)
MaxResults == 3

MaxMinDuplicates == 3

\* a result of the release both trackers carry, as the tracker spells its
\* title and measures its size
Movie(indexer, link) ==
    [ title   |-> IF indexer = "TrackerA" THEN TitleDotted ELSE TitleUnderscored,
      size    |-> IF indexer = "TrackerA" THEN 2000 * MB ELSE 2005 * MB,
      indexer |-> indexer,
      link    |-> link ]

\* a result of another release
Other(indexer, link) ==
    [ title |-> TitleOther, size |-> 700 * MB, indexer |-> indexer, link |-> link ]

\* the results an answer is made of: a release, a tracker and a download link
\* (none, or one of two)
Shapes ==
    { Movie(indexer, link) : indexer \in { "TrackerA", "PubB" }, link \in { "", "u1", "u2" } }
    \cup { Other("PubB", link) : link \in { "", "u1" } }

\* more results than one page may hold, all of one release
LargeResponse ==
    [ i \in 1..(CAPS_LIMIT_MAX + 1) |->
        Result(i, TitleDotted, 2000 * MB,
               IF i % 2 = 0 THEN "TrackerA" ELSE "PubB", ToString(i)) ]

SearchResponses ==
    { LargeResponse } \cup
    UNION { { [ i \in 1..n |-> Result(i, f[i].title, f[i].size, f[i].indexer, f[i].link) ] :
                f \in [ 1..n -> Shapes ] } : n \in 0..MaxResults }

SearchRequests ==
    { Request("a", page[1], page[2]) :
        page \in { << 0, DEFAULT_LIMIT >>, << 1, 1 >>, << 0, 150 >>, << 200, DEFAULT_LIMIT >> } }

InitSearch ==
    /\ MIN_DUPLICATES \in 1..MaxMinDuplicates
    /\ PRIVATE_TRACKERS \in { {}, { "TrackerA" } }
    /\ results_cache = <<>>
    /\ now = 0
    /\ handler = [ h \in Handlers |-> IdleHandler ]
    /\ negative_keys = {}

NextSearch ==
    \E h \in { "h1" } :
      \/ \E params \in SearchRequests : Receive(h, params)
      \/ SweepNext(h)
      \/ CacheContains(h)
      \/ QueryHydra(h, SearchResponses)
      \/ CacheStore(h)
      \/ Paginate(h)

SpecSearch == InitSearch /\ [][NextSearch]_vars

\* a search of the default page, with no cat parameter
DefaultRequest == Request("a", 0, DEFAULT_LIMIT)

(***************************************************************************)
(* One search of the default page over the same answers, with the          *)
(* threshold at 1 or at its default: the specification the properties of   *)
(* grouping and of the tracker counts are stated on.                       *)
(***************************************************************************)
InitGrouping ==
    /\ MIN_DUPLICATES \in { 1, DEFAULT_MIN_DUPLICATES }
    /\ PRIVATE_TRACKERS \in { {}, { "TrackerA" } }
    /\ results_cache = <<>>
    /\ now = 0
    /\ handler = [ h \in Handlers |-> IdleHandler ]
    /\ negative_keys = {}

NextGrouping ==
    \E h \in { "h1" } :
      \/ Receive(h, DefaultRequest)
      \/ SweepNext(h)
      \/ CacheContains(h)
      \/ QueryHydra(h, SearchResponses)
      \/ CacheStore(h)
      \/ Paginate(h)

SpecGrouping == InitGrouping /\ [][NextGrouping]_vars

(***************************************************************************)
(* One search whose answer is a single result of any whole number of       *)
(* megabytes up to MaxSizeMB, with MIN_DUPLICATES = 1: the specification   *)
(* the properties of get_size_bucket are stated on.  The bucket of the     *)
(* result is the second part of the key of its group.                      *)
(***************************************************************************)
MaxSizeMB == 2046

SizedResponses ==
    { << Result(1, TitleDotted, size_mb * MB, "PubB", "u1") >> : size_mb \in 0..MaxSizeMB }

InitSized ==
    /\ MIN_DUPLICATES = 1
    /\ PRIVATE_TRACKERS = {}
    /\ results_cache = <<>>
    /\ now = 0
    /\ handler = [ h \in Handlers |-> IdleHandler ]
    /\ negative_keys = {}

NextSized ==
    \E h \in { "h1" } :
      \/ Receive(h, DefaultRequest)
      \/ SweepNext(h)
      \/ CacheContains(h)
      \/ QueryHydra(h, SizedResponses)
      \/ CacheStore(h)
      \/ Paginate(h)

SpecSized == InitSized /\ [][NextSized]_vars

(***************************************************************************)
(* One search with a cat parameter, whose answer has results of several    *)
(* categories, with MIN_DUPLICATES = 1: the specification the properties   *)
(* of the category filter are stated on.                                   *)
(***************************************************************************)
MaxCategoryResults == 2

\* categories as NZBHydra2 names them; the last one is not in the table
Categories == { "Movies", "Movies HD", "TV", "TV HD", " Audio ", "Ebook" }

\* the cat parameter: absent, a main category, a subcategory, several codes
CategoryRequests ==
    { [ Request("a", 0, DEFAULT_LIMIT) EXCEPT !.cat = cat ] :
        cat \in { <<>>, << 2000 >>, << 2040 >>, << 5000 >>, << 5040, 3000 >> } }

CategoryResponses ==
    UNION { { [ i \in 1..n |->
                [ Result(i, TitleDotted, 2000 * MB, "PubB", ToString(i))
                    EXCEPT !.category = f[i] ] ] :
                f \in [ 1..n -> Categories ] } : n \in 0..MaxCategoryResults }

NextCategory ==
    \E h \in { "h1" } :
      \/ \E params \in CategoryRequests : Receive(h, params)
      \/ SweepNext(h)
      \/ CacheContains(h)
      \/ QueryHydra(h, CategoryResponses)
      \/ CacheStore(h)
      \/ Paginate(h)

SpecCategory == InitSized /\ [][NextCategory]_vars

(***************************************************************************)
(* What the properties below read off a handler.                           *)
(***************************************************************************)
\* the handler has the answer of NZBHydra2 and has filtered it
Searched(h) == handler[h].pc \in { "store", "paginate", "done" } /\ ~handler[h].cached

\* a result without the annotation filter_cross_seedable adds
Stripped(result) == [ f \in DOMAIN result \ { "tracker_counts" } |-> result[f] ]

StrippedSet(results) == { Stripped(results[k]) : k \in 1..Len(results) }

\* the position of the result with this id in a list that holds it
PositionOf(results, id) == CHOOSE k \in 1..Len(results) : results[k].searchResultId = id

(***************************************************************************)
(* C1.  Cross-seed threshold: with no private trackers configured, every   *)
(* member of a group with at least MIN_DUPLICATES members is in the output *)
(* of filter_cross_seedable, and no member of a group with fewer members   *)
(* is (so a group of MIN_DUPLICATES - 1 is dropped, one of MIN_DUPLICATES  *)
(* kept).                                                                  *)
(***************************************************************************)
C1_CrossSeedThreshold ==
    \A h \in Handlers :
      (Searched(h) /\ PRIVATE_TRACKERS = {}) =>
        \A i \in 1..Len(handler[h].groups) :
          LET members == handler[h].groups[i].members
              emitted == StrippedSet(handler[h].cross_seedable)
          IN  IF Len(members) >= MIN_DUPLICATES
              THEN Range(members) \subseteq emitted
              ELSE Range(members) \cap emitted = {}

\* a group one short of the threshold was dropped beside a group that just
\* reaches it and was kept
C1_Witness ==
    \E h \in Handlers :
      /\ Searched(h)
      /\ PRIVATE_TRACKERS = {}
      /\ MIN_DUPLICATES >= 2
      /\ \E i, j \in 1..Len(handler[h].groups) :
           /\ Len(handler[h].groups[i].members) = MIN_DUPLICATES - 1
           /\ Len(handler[h].groups[j].members) = MIN_DUPLICATES
           /\ StrippedSet(handler[h].cross_seedable) = Range(handler[h].groups[j].members)

(***************************************************************************)
(* C2.  Every result a search returns belongs to a release found on        *)
(* several trackers: among the raw results of the query, those with its    *)
(* GroupKey come from at least MIN_DUPLICATES distinct indexers.           *)
(***************************************************************************)
C2_DistinctTrackers ==
    \A h \in Handlers :
      handler[h].pc = "done" =>
        \A k \in 1..Len(handler[h].paginated_results) :
          LET raw == handler[h].searchResults
              key == GroupKey(handler[h].paginated_results[k])
          IN  Cardinality({ raw[i].indexer : i \in { n \in 1..Len(raw) : GroupKey(raw[n]) = key } })
                >= MIN_DUPLICATES

(***************************************************************************)
(* C3.  Private-tracker rule: with a non-empty set of private trackers, a  *)
(* group of at least MIN_DUPLICATES members is emitted exactly when one of *)
(* its members is on a private tracker; a group with public members only   *)
(* is dropped whatever its size; and in a kept group with one member on a  *)
(* private tracker and two on public ones every member is annotated        *)
(* {private: 1, public: 2}.                                                *)
(***************************************************************************)
C3_PrivateTrackerRule ==
    \A h \in Handlers :
      (Searched(h) /\ PRIVATE_TRACKERS # {}) =>
        \A i \in 1..Len(handler[h].groups) :
          LET members == handler[h].groups[i].members
              private == { j \in 1..Len(members) : members[j].indexer \in PRIVATE_TRACKERS }
              out     == handler[h].cross_seedable
              emitted == StrippedSet(out)
          IN  /\ (Len(members) >= MIN_DUPLICATES /\ private # {})
                   => Range(members) \subseteq emitted
              /\ (Len(members) < MIN_DUPLICATES \/ private = {})
                   => Range(members) \cap emitted = {}
              /\ (Cardinality(private) = 1 /\ Len(members) = 3)
                   => \A k \in 1..Len(out) :
                        Stripped(out[k]) \in Range(members)
                          => out[k].tracker_counts = [ private |-> 1, public |-> 2 ]

\* a group with one member on the private tracker and two on a public one
\* was kept and annotated
C3_Witness ==
    \E h \in Handlers :
      /\ Searched(h)
      /\ PRIVATE_TRACKERS = { "TrackerA" }
      /\ Len(handler[h].groups) = 1
      /\ Len(handler[h].groups[1].members) = 3
      /\ Cardinality({ j \in 1..3 : handler[h].groups[1].members[j].indexer = "TrackerA" }) = 1
      /\ Len(handler[h].cross_seedable) = 3
      /\ \A k \in 1..3 :
           handler[h].cross_seedable[k].tracker_counts = [ private |-> 1, public |-> 2 ]

(***************************************************************************)
(* C4.  Deduplication never removes an entry with an empty download link:  *)
(* every such entry of the list that goes into the deduplication is in     *)
(* the list that is cached and returned.                                   *)
(***************************************************************************)
C4_EmptyLinksRetained ==
    \A h \in Handlers :
      Searched(h) =>
        \A i \in 1..Len(handler[h].category_filtered) :
          handler[h].category_filtered[i].link = ""
            => handler[h].category_filtered[i] \in Range(handler[h].filtered_results)

(***************************************************************************)
(* C5.  Deduplication: the output has no two entries with the same         *)
(* non-empty download link, the entry kept for a non-empty link is the     *)
(* first one of the input with that link, and the kept entries are in the  *)
(* order they have in the input.                                           *)
(***************************************************************************)
C5_Deduplication ==
    \A h \in Handlers :
      Searched(h) =>
        LET input  == handler[h].category_filtered
            output == handler[h].filtered_results
        IN  /\ \A a, b \in 1..Len(output) :
                 (a # b /\ output[a].link # "") => output[a].link # output[b].link
            /\ \A i \in 1..Len(input) :
                 (input[i].link # "" /\ \A n \in 1..(i - 1) : input[n].link # input[i].link)
                   => input[i] \in Range(output)
            /\ \A a \in 1..Len(output) :
                 output[a].link # "" =>
                   \E i \in 1..Len(input) :
                     /\ input[i] = output[a]
                     /\ \A n \in 1..(i - 1) : input[n].link # output[a].link
            /\ \A a, b \in 1..Len(output) :
                 a < b => PositionOf(input, output[a].searchResultId)
                            < PositionOf(input, output[b].searchResultId)

\* a link came twice in the input, after another entry, and once in the output
C5_Witness ==
    \E h \in Handlers :
      /\ Searched(h)
      /\ LET input  == handler[h].category_filtered
             output == handler[h].filtered_results
         IN  /\ Len(input) = 3
             /\ input[1].link # ""
             /\ input[2].link # ""
             /\ input[1].link # input[2].link
             /\ input[3].link = input[2].link
             /\ output = << input[1], input[2] >>

(***************************************************************************)
(* C9.  Pagination cap: whatever limit is requested, the page of a search  *)
(* has at most 100 results; for an offset of 0 or more it is the slice     *)
(* [offset, offset + min(limit, 100)) of the filtered list, clamped to the *)
(* list, and an offset past the end gives the empty page.                  *)
(***************************************************************************)
C9_PaginationCap ==
    \A h \in Handlers :
      handler[h].pc = "done" =>
        LET offset == handler[h].params.offset
            limit  == handler[h].params.limit
            list   == handler[h].filtered_results
            page   == handler[h].paginated_results
        IN  /\ Len(page) <= CAPS_LIMIT_MAX
            /\ offset >= 0 =>
                 page = SubSeq(list, offset + 1,
                               Min(Len(list), offset + Min(limit, CAPS_LIMIT_MAX)))
            /\ offset >= Len(list) => page = <<>>

(***************************************************************************)
(* What the properties about the cache read off the state.                 *)
(***************************************************************************)
\* two requests with one search intent: they agree on all but offset and limit
SameIntent(p, q) ==
    /\ p.q = q.q
    /\ p.cat = q.cat
    /\ p.imdbid = q.imdbid
    /\ p.tvdbid = q.tvdbid
    /\ p.season = q.season
    /\ p.ep = q.ep
    /\ p.t = q.t

\* the handler has computed its cache key
Keyed(h) == handler[h].pc \in { "lookup", "read", "del_stale", "query", "store", "paginate", "done" }

\* the positions of the entries stored for a request with the intent of h's
EntriesFor(h) ==
    { i \in 1..Len(results_cache) :
        \E p \in Requests : /\ SameIntent(p, handler[h].params)
                            /\ results_cache[i].key = get_cache_key(p) }

\* the list from offset on, limit results at most, for an offset of 0 or more
PageOf(list, offset, limit) ==
    SubSeq(list, offset + 1, Min(Len(list), offset + limit))

InSweep(h) == handler[h].pc \in { "sweep_scan", "sweep_del" }

(***************************************************************************)
(* C6.  No negative caching: a search whose call of NZBHydra2 failed       *)
(* yields no results, and no later search with the same fingerprint is     *)
(* served from an entry stored after a failed call: it queries NZBHydra2   *)
(* again.                                                                  *)
(***************************************************************************)
C6_NoNegativeCaching ==
    [][ \A h \in Handlers :
          /\ (handler[h].pc = "query" /\ handler'[h].pc = "store" /\ handler'[h].hydra_failed)
               => handler'[h].filtered_results = <<>>
          /\ (handler[h].pc = "read" /\ handler'[h].pc = "paginate")
               => handler[h].cache_key \notin negative_keys ]_vars

C8_CacheExpiry ==
    [][ \A h \in Handlers :
          LET key     == handler[h].cache_key
              present == key \in CacheKeys(results_cache)
              age     == now - CacheGet(results_cache, key).timestamp
          IN  /\ (handler[h].pc = "read" /\ handler'[h].pc = "paginate")
                   => (present /\ age < CACHE_TTL)
              /\ (handler[h].pc = "read" /\ handler'[h].pc # "read" /\ present)
                   => handler'[h].pc = IF age < CACHE_TTL THEN "paginate" ELSE "del_stale"
              /\ (handler[h].pc = "del_stale" /\ handler'[h].pc = "query")
                   => key \notin CacheKeys(results_cache')
              /\ (handler[h].pc = "store" /\ handler'[h].pc = "paginate")
                   => /\ key \in CacheKeys(results_cache')
                      /\ CacheGet(results_cache', key).timestamp = now
                      /\ CacheGet(results_cache', key).results = handler[h].filtered_results
              /\ (InSweep(h) /\ ~InSweep(h)')
                   => \A i \in 1..Len(results_cache') :
                        handler[h].current_time - results_cache'[i].timestamp <= CACHE_TTL ]_vars

(***************************************************************************)
(* C10.  Under every interleaving of concurrent searches the accesses to   *)
(* results_cache never fail: no sweep, lookup, removal of a stale entry or *)
(* store of a handler raises an error because another handler removed or   *)
(* inserted an entry in between.                                           *)
(***************************************************************************)
C10_NoCacheError ==
    \A h \in Handlers : handler[h].error = ""

(***************************************************************************)
(* C11.  A cache entry is read-only during its TTL window: while the age   *)
(* of a stored entry is below CACHE_TTL, no step of any handler, also of   *)
(* handlers working on the same fingerprint at once, replaces or changes   *)
(* its result list or its timestamp.                                       *)
(***************************************************************************)
C11_EntryReadOnly ==
    [][ \A i \in 1..Len(results_cache) :
          now - results_cache[i].timestamp < CACHE_TTL =>
            \A j \in 1..Len(results_cache') :
              results_cache'[j].key = results_cache[i].key
                => /\ results_cache'[j].results = results_cache[i].results
                   /\ results_cache'[j].timestamp = results_cache[i].timestamp ]_vars

(***************************************************************************)
(* C12.  Tracker-count invariant: every result filter_cross_seedable       *)
(* emits, and so every result held in a cache entry, carries counts whose  *)
(* private + public is the number of members of its release group (the     *)
(* grouped results with its GroupKey), with private the number of those    *)
(* members on a private tracker; results of dropped groups are never       *)
(* emitted.                                                                *)
(***************************************************************************)
\* the GroupKey of every result of the list that was grouped
KeysOf(h) ==
    <<>> \o [ i \in 1..Len(handler[h].all_results) |-> GroupKey(handler[h].all_results[i]) ]

\* the positions, in the list that was grouped, of the release with this key
ReleaseOf(keys, key) == { i \in 1..Len(keys) : keys[i] = key }

CountsRight(h, keys, result) ==
    LET release == ReleaseOf(keys, GroupKey(result))
        private == { i \in release : handler[h].all_results[i].indexer \in PRIVATE_TRACKERS }
    IN  /\ "tracker_counts" \in DOMAIN result
        /\ result.tracker_counts.private + result.tracker_counts.public = Cardinality(release)
        /\ result.tracker_counts.private = Cardinality(private)
        /\ Cardinality(release) >= MIN_DUPLICATES
        /\ PRIVATE_TRACKERS # {} => private # {}
        /\ Stripped(result) \in Range(handler[h].all_results)

C12_TrackerCounts ==
    \A h \in Handlers :
      Searched(h) =>
        LET keys == KeysOf(h)
        IN  /\ \A k \in 1..Len(handler[h].cross_seedable) :
                 CountsRight(h, keys, handler[h].cross_seedable[k])
            /\ handler[h].pc \in { "paginate", "done" } =>
                 \A i \in 1..Len(results_cache) :
                   \A k \in 1..Len(results_cache[i].results) :
                     CountsRight(h, keys, results_cache[i].results[k])

\* a release on the private and on a public tracker was kept, counted 1 and 1,
\* and cached, beside a release on the public tracker only, which was dropped
C12_Witness ==
    \E h \in Handlers :
      /\ handler[h].pc = "done"
      /\ ~handler[h].cached
      /\ PRIVATE_TRACKERS = { "TrackerA" }
      /\ Len(handler[h].all_results) = 3
      /\ Len(handler[h].groups) = 2
      /\ Len(handler[h].cross_seedable) = 2
      /\ \E i \in 1..Len(results_cache) :
           /\ Len(results_cache[i].results) = 2
           /\ \A k \in 1..2 :
                results_cache[i].results[k].tracker_counts = [ private |-> 1, public |-> 1 ]

(***************************************************************************)
(* C13.  group_results partitions its input: every input result is in      *)
(* exactly one group and there once, two results are in one group exactly  *)
(* when they have the same (normalized title, size bucket) pair, there are *)
(* as many groups as distinct pairs, and the members of a group are in     *)
(* input order.                                                            *)
(***************************************************************************)
\* the (normalized title, size bucket) pair of every result of a list
PairsOf(input) ==
    <<>> \o [ i \in 1..Len(input) |->
               << normalize_title(input[i].title), get_size_bucket(input[i].size) >> ]

\* the set of the members of every group
MemberSets(groups) == <<>> \o [ g \in 1..Len(groups) |-> Range(groups[g].members) ]

\* the position in the input of every member of a group
PositionsOf(input, members) ==
    <<>> \o [ m \in 1..Len(members) |-> PositionOf(input, members[m].searchResultId) ]

C13_GroupsPartition ==
    \A h \in Handlers :
      Searched(h) =>
        LET input      == handler[h].all_results
            groups     == handler[h].groups
            pairs      == PairsOf(input)
            memberSets == MemberSets(groups)
            groupsOf   == <<>> \o [ i \in 1..Len(input) |->
                                       { g \in 1..Len(groups) : input[i] \in memberSets[g] } ]
        IN  /\ \A i \in 1..Len(input) : Cardinality(groupsOf[i]) = 1
            /\ \A g \in 1..Len(groups) :
                 LET members  == groups[g].members
                     position == PositionsOf(input, members)
                 IN  /\ members # <<>>
                     /\ \A m \in 1..Len(members) : members[m] = input[position[m]]
                     /\ \A m \in 1..(Len(members) - 1) : position[m] < position[m + 1]
            /\ \A i, j \in 1..Len(input) :
                 (groupsOf[i] = groupsOf[j]) <=> (pairs[i] = pairs[j])
            /\ Len(groups) = Cardinality(Range(pairs))

\* the first and the third result are one release under two spellings and
\* sizes, the second is another release in between
C13_Witness ==
    \E h \in Handlers :
      /\ Searched(h)
      /\ Len(handler[h].all_results) = 3
      /\ handler[h].all_results[1].title # handler[h].all_results[3].title
      /\ handler[h].all_results[1].size # handler[h].all_results[3].size
      /\ Len(handler[h].groups) = 2
      /\ handler[h].groups[1].members = << handler[h].all_results[1], handler[h].all_results[3] >>
      /\ handler[h].groups[2].members = << handler[h].all_results[2] >>

(***************************************************************************)
(* C14.  get_size_bucket, for a size of a whole number of megabytes, gives *)
(* a multiple of the width w of its magnitude (10 below 100 MB, 50 below   *)
(* 1000 MB, 100 from there on) within w/2 of the size, a size halfway      *)
(* between two multiples going to the one with the even quotient: 95 MB    *)
(* -> 100, 85 MB -> 80, and 95 and 105 MB share bucket 100 as 2000 and     *)
(* 2005 MB share bucket 2000.                                              *)
(***************************************************************************)
WidthOf(size_mb) == IF size_mb < 100 THEN 10 ELSE IF size_mb < 1000 THEN 50 ELSE 100

Distance(a, b) == IF a < b THEN b - a ELSE a - b

BucketRight(size_mb, bucket) ==
    LET w == WidthOf(size_mb)
    IN  /\ bucket \in Nat
        /\ bucket % w = 0
        /\ 2 * Distance(bucket, size_mb) <= w
        /\ 2 * Distance(bucket, size_mb) = w => (bucket \div w) % 2 = 0
        /\ size_mb = 85 => bucket = 80
        /\ size_mb \in { 95, 105 } => bucket = 100
        /\ size_mb \in { 2000, 2005 } => bucket = 2000

C14_SizeBucket ==
    \A h \in Handlers :
      Searched(h) =>
        \A g \in 1..Len(handler[h].groups) :
          \A m \in 1..Len(handler[h].groups[g].members) :
            LET size_bytes == handler[h].groups[g].members[m].size
            IN  size_bytes % MB = 0 =>
                  BucketRight(size_bytes \div MB, handler[h].groups[g].key[2])

\* a size halfway between two buckets went to the one with the even quotient,
\* which here is the lower one
C14_Witness ==
    \E h \in Handlers :
      /\ Searched(h)
      /\ Len(handler[h].groups) = 1
      /\ handler[h].groups[1].members[1].size = 85 * MB
      /\ handler[h].groups[1].key[2] = 80

(***************************************************************************)
(* C15.  Category filter, as stated: when a search requests a non-empty    *)
(* set of category codes, a cross-seedable result is kept exactly when the *)
(* code map_category_to_torznab gives for its category is itself one of    *)
(* the requested codes.                                                    *)
(***************************************************************************)
C15_ExactCategoryMatch ==
    \A h \in Handlers :
      (Searched(h) /\ handler[h].params.cat # <<>>) =>
        \A k \in 1..Len(handler[h].cross_seedable) :
          LET result == handler[h].cross_seedable[k]
          IN  result \in Range(handler[h].category_filtered)
                <=> map_category_to_torznab(result.category) \in Range(handler[h].params.cat)

(***************************************************************************)
(* C15, amended.  When a search requests a non-empty set of category       *)
(* codes, a cross-seedable result is kept exactly when the code of its     *)
(* category, or the main category of that code (its first digit followed   *)
(* by 000), is one of the requested codes; the kept results are in the     *)
(* order they had, and nothing else is in the list.                        *)
(***************************************************************************)
C15_CategoryOrMainCategory ==
    \A h \in Handlers :
      (Searched(h) /\ handler[h].params.cat # <<>>) =>
        LET input     == handler[h].cross_seedable
            output    == handler[h].category_filtered
            requested == Range(handler[h].params.cat)
        IN  /\ \A k \in 1..Len(input) :
                 LET code == map_category_to_torznab(input[k].category)
                 IN  input[k] \in Range(output)
                       <=> (code \in requested \/ code - (code % 1000) \in requested)
            /\ Range(output) \subseteq Range(input)
            /\ \A a, b \in 1..Len(output) :
                 a < b => PositionOf(input, output[a].searchResultId)
                            < PositionOf(input, output[b].searchResultId)

\* movies were asked for: a result of the subcategory Movies HD was kept and a
\* TV result was dropped
C15_Witness ==
    \E h \in Handlers :
      /\ Searched(h)
      /\ handler[h].params.cat = << 2000 >>
      /\ Len(handler[h].cross_seedable) = 2
      /\ handler[h].cross_seedable[1].category = "TV"
      /\ handler[h].cross_seedable[2].category = "Movies HD"
      /\ handler[h].category_filtered = << handler[h].cross_seedable[2] >>

====
